---- MODULE Spec2Model ----
(***************************************************************************)
(* Model of the GP2Y0E02B infrared distance sensor driver (class Infrared) *)
(* behind a PCA9546 I2C multiplexer: src/lib/infrared/infrared.cpp.        *)
(*                                                                         *)
(* The Arduino Wire object is modelled by the record `bus`: the pending    *)
(* write transaction (txAddr, txBuf), the receive buffer (rx), the byte    *)
(* last written to the multiplexer (mux) and, as a history field, the bus  *)
(* operations of the call in progress (log).  `hist` is a history          *)
(* variable holding the records of the most recent calls.                  *)
(*                                                                         *)
(* `ctx` gives, for the execution context that makes the calls of each     *)
(* sensor, how far its call in progress has got; `serial` tells whether    *)
(* the caller lets a call start only when no other call is in progress.    *)
(* The specifications of whole calls leave both unchanged.                 *)
(*                                                                         *)
(* Integer widths: uint8_t and uint16_t wrap (Uint8, Uint16); `int` is     *)
(* taken to be IntBits = 32 bits wide, as on the 32-bit Arduino cores.     *)
(***************************************************************************)
EXTENDS Integers, Sequences, FiniteSets, TLC

VARIABLES index, shiftValue, bus, hist, ctx, serial

vars == <<index, shiftValue, bus, hist, ctx, serial>>

(***************************************************************************)
(* Program constants.                                                      *)
(***************************************************************************)
MULTIPLEXER_SLAVE_ADDRESS == 224 \div 2
MULTIPLEXER_CHANNEL_COUNT == 4
IR_SLAVE_ADDRESS == 128 \div 2
IR_SHIFT_REG_ADDRESS == 53
IR_DISTANCE_REG_ADDRESS == 94
MAX_IR_RANGE == 639
IntBits == 32

(***************************************************************************)
(* Bounds of the model.                                                    *)
(***************************************************************************)
NumSensors == 2
MaxHist == 3
MaxGap == 2

Sensors == 1..NumSensors
Channels == 0..(MULTIPLEXER_CHANNEL_COUNT - 1)
Byte == 0..255
NoValue == 0 - 2

\* Bytes the sensor answers with in the sampled specifications.
HighSamples == {39, 255}
LowSamples == {10, 249}
ShiftSamples == {0, 2, 28}

(***************************************************************************)
(* Fixed-width integer arithmetic.                                         *)
(***************************************************************************)
Uint8(x) == x % 256
\* Mutant: the distance kept in 8 bits.
Uint16Narrow(x) == x % 256

Uint16(x) == x % 65536
Int16(x) == IF Uint16(x) >= 32768 THEN Uint16(x) - 65536 ELSE Uint16(x)

ShiftLeft(x, n) == x * (2 ^ n)

\* x >> n for 0 <= x < 2^31 and 0 <= n < IntBits.
ShiftRight(x, n) == IF n >= IntBits - 1 THEN 0 ELSE x \div (2 ^ n)

RECURSIVE BitOr(_, _)
BitOr(a, b) ==
    IF a = 0 THEN b
    ELSE IF b = 0 THEN a
    ELSE (IF a % 2 = 1 \/ b % 2 = 1 THEN 1 ELSE 0) + 2 * BitOr(a \div 2, b \div 2)

\* A shift by IntBits or more is undefined: the outcomes are those of the
\* usual targets (count taken modulo the register width, count taken from the
\* low byte, or all bits shifted out).
UndefinedShift(x, n) ==
    {0, ShiftRight(x, n % IntBits), ShiftRight(x, n % 256)}

(***************************************************************************)
(* The Wire bus and the multiplexer behind it.                             *)
(***************************************************************************)
Entry(kind, addr, data, b) ==
    [kind |-> kind, addr |-> addr, data |-> data, mux |-> b.mux]

Wire_begin(b) == [b EXCEPT !.txBuf = <<>>, !.rx = <<>>]

Wire_beginTransmission(b, address) ==
    [b EXCEPT !.txAddr = address, !.txBuf = <<>>]

Wire_write(b, value) == [b EXCEPT !.txBuf = Append(@, Uint8(value))]

\* The transaction reaches the bus: a write to the multiplexer's address sets
\* its routing byte, any other write goes to the device behind the channel
\* selected at that moment.
Wire_endTransmission(b) ==
    [b EXCEPT
        !.log = Append(@, Entry("write", b.txAddr, b.txBuf, b)),
        !.mux = IF b.txAddr = MULTIPLEXER_SLAVE_ADDRESS /\ b.txBuf # <<>>
                THEN b.txBuf[Len(b.txBuf)] ELSE @,
        !.txBuf = <<>>]

\* `reply` is what the addressed device sends back, at most `quantity` bytes.
Wire_requestFrom(b, address, quantity, reply) ==
    [b EXCEPT
        !.log = Append(@, Entry("request", address, <<quantity>>, b)),
        !.rx = reply]

Wire_available(b) == Len(b.rx)

\* Wire.read(): the next received byte, or -1 when there is none.
Wire_read(b) == IF b.rx = <<>> THEN -1 ELSE Head(b.rx)

\* The bus after Wire.read().
Wire_pop(b) ==
    IF b.rx = <<>> THEN b
    ELSE [b EXCEPT !.rx = Tail(@),
                   !.log = Append(@, Entry("read", NoValue, <<Head(b.rx)>>, b))]

(***************************************************************************)
(* Infrared::_setMultiplexer                                               *)
(***************************************************************************)
\* Mutants: the selection kept from an earlier call; the index written unshifted.
setMultiplexerCached(b, idx) ==
    IF b.mux # 0 THEN b
    ELSE Wire_endTransmission(
             Wire_write(Wire_beginTransmission(b, MULTIPLEXER_SLAVE_ADDRESS),
                        ShiftLeft(1, idx)))

setMultiplexerIndex(b, idx) ==
    Wire_endTransmission(
        Wire_write(Wire_beginTransmission(b, MULTIPLEXER_SLAVE_ADDRESS), idx))

\* Mutant: channel 0 selected whatever the index.
setMultiplexerZero(b, idx) ==
    Wire_endTransmission(
        Wire_write(Wire_beginTransmission(b, MULTIPLEXER_SLAVE_ADDRESS),
                   ShiftLeft(1, 0)))

setMultiplexer(b, idx) ==
    Wire_endTransmission(
        Wire_write(Wire_beginTransmission(b, MULTIPLEXER_SLAVE_ADDRESS),
                   ShiftLeft(1, idx)))

(***************************************************************************)
(* Infrared::read, decode part (lines 115-127).                            *)
(***************************************************************************)
\* Mutants: the bytes added instead of or-ed; the bytes taken in the other order.
raw12Sum(high, low) == ShiftLeft(high, 4) + low

raw12Swapped(high, low) == BitOr(ShiftLeft(low, 4), high)

raw12(high, low) == BitOr(ShiftLeft(high, 4), low)

\* Mutant: the 64 cm mode assumed instead of the stored shift value.
shiftCountFixed(shift) == 4 + 2

shiftCount(shift) == 4 + shift

\* The values `distance` can take: one value when the shift is defined.
decode(high, low, shift) ==
    LET product == raw12(high, low) * 10
        n == shiftCount(shift)
    IN  IF n < IntBits
        THEN {Uint16(ShiftRight(product, n))}
        ELSE {Uint16(v) : v \in UndefinedShift(product, n)}

\* Mutant: the limit itself accepted.
inRangeInclusive(distance) == distance <= MAX_IR_RANGE

inRange(distance) == distance < MAX_IR_RANGE

\* Mutant: no range validation.
resultUnchecked(distance) == Int16(distance)

result(distance) == Int16(IF inRange(distance) THEN distance ELSE -1)

(***************************************************************************)
(* Infrared::read, bus part (lines 94-112).                                *)
(***************************************************************************)
\* Mutant: the request issued a second time.
readRequestTwice(b, idx, reply) ==
    Wire_requestFrom(
        Wire_requestFrom(
            Wire_endTransmission(
                Wire_write(Wire_beginTransmission(setMultiplexer(b, idx),
                                                  IR_SLAVE_ADDRESS),
                           IR_DISTANCE_REG_ADDRESS)),
            IR_SLAVE_ADDRESS, 2, reply),
        IR_SLAVE_ADDRESS, 2, reply)

readRequest(b, idx, reply) ==
    Wire_requestFrom(
        Wire_endTransmission(
            Wire_write(Wire_beginTransmission(setMultiplexer(b, idx),
                                              IR_SLAVE_ADDRESS),
                       IR_DISTANCE_REG_ADDRESS)),
        IR_SLAVE_ADDRESS, 2, reply)

\* Mutant: one byte taken to be enough.
tooFewBytesOne(b) == Wire_available(b) < 1

tooFewBytes(b) == Wire_available(b) < 2

(***************************************************************************)
(* Infrared::setup, bus part (lines 59-74).                                *)
(***************************************************************************)
\* Mutant: the 64 cm mode written to the register after its address.
setupRequestSetMode(b, idx, reply) ==
    Wire_requestFrom(
        Wire_endTransmission(
            Wire_write(
                Wire_write(Wire_beginTransmission(
                               setMultiplexer(Wire_begin(b), idx),
                               IR_SLAVE_ADDRESS),
                           IR_SHIFT_REG_ADDRESS),
                2)),
        IR_SLAVE_ADDRESS, 1, reply)

setupRequest(b, idx, reply) ==
    Wire_requestFrom(
        Wire_endTransmission(
            Wire_write(Wire_beginTransmission(setMultiplexer(Wire_begin(b), idx),
                                              IR_SLAVE_ADDRESS),
                       IR_SHIFT_REG_ADDRESS)),
        IR_SLAVE_ADDRESS, 1, reply)

\* Mutant: the default of register 0x35 stored instead of the byte read back.
storedShiftDefault(b) == 2

\* Line 82: the value stored in _shiftValue.
storedShift(b) == Uint8(Wire_read(b))

(***************************************************************************)
(* History of calls.                                                       *)
(***************************************************************************)
Push(h, rec, keep) ==
    LET all == Append(h, rec)
    IN  IF Len(all) <= keep THEN all
        ELSE SubSeq(all, Len(all) - keep + 1, Len(all))

CallRecord(op, s, reply, before, high, low, distance, ret) ==
    [op |-> op, sensor |-> s, reply |-> reply, avail |-> Len(reply),
     shift |-> before, high |-> high, low |-> low,
     distance |-> distance, ret |-> ret]

NoBus == [txAddr |-> 0, txBuf |-> <<>>, rx |-> <<>>, mux |-> 0, log |-> <<>>]

\* No call in progress in any execution context.
Idle == [s \in Sensors |-> [pc |-> "idle", op |-> "none", seen |-> <<>>]]

(***************************************************************************)
(* The operations, each a whole call.                                      *)
(***************************************************************************)
\* Lines 77-82 of setup(): b is the bus after the request.
setupFinish(s, b, reply, keep) ==
    /\ shiftValue' = [shiftValue EXCEPT ![s] = storedShift(b)]
    /\ bus' = Wire_pop(b)
    /\ hist' = Push(hist,
                    CallRecord("setup", s, reply, shiftValue[s],
                               NoValue, NoValue, NoValue, NoValue),
                    keep)
    /\ UNCHANGED index

\* Lines 109-127 of read(): b is the bus after the request.
readFinish(s, b, reply, keep) ==
    IF tooFewBytes(b)
    THEN /\ bus' = b
         /\ hist' = Push(hist,
                         CallRecord("read", s, reply, shiftValue[s],
                                    NoValue, NoValue, NoValue, Int16(-1)),
                         keep)
         /\ UNCHANGED <<index, shiftValue>>
    ELSE LET high == Uint8(Wire_read(b))
             b2 == Wire_pop(b)
             low == Uint8(Wire_read(b2))
             b3 == Wire_pop(b2)
         IN  \E distance \in decode(high, low, shiftValue[s]) :
                /\ bus' = b3
                /\ hist' = Push(hist,
                                CallRecord("read", s, reply, shiftValue[s],
                                           high, low, distance,
                                           result(distance)),
                                keep)
                /\ UNCHANGED <<index, shiftValue>>

\* Mutant: one shift value shared by all instances (a static member).
setupShared(s, reply, keep) ==
    LET b1 == setupRequest([bus EXCEPT !.log = <<>>], index[s], reply)
    IN  /\ shiftValue' = [o \in Sensors |-> storedShift(b1)]
        /\ bus' = Wire_pop(b1)
        /\ hist' = Push(hist,
                        CallRecord("setup", s, reply, shiftValue[s],
                                   NoValue, NoValue, NoValue, NoValue),
                        keep)
        /\ UNCHANGED <<index, ctx, serial>>

setup(s, reply, keep) ==
    /\ setupFinish(s, setupRequest([bus EXCEPT !.log = <<>>], index[s], reply),
                   reply, keep)
    /\ UNCHANGED <<ctx, serial>>

read(s, reply, keep) ==
    /\ readFinish(s, readRequest([bus EXCEPT !.log = <<>>], index[s], reply),
                  reply, keep)
    /\ UNCHANGED <<ctx, serial>>

(***************************************************************************)
(* Replies of the sensor.                                                  *)
(***************************************************************************)
Replies1(S) == {<<>>} \cup {<<v>> : v \in S}
Replies2(H, L) ==
    {<<>>} \cup {<<h>> : h \in H} \cup {<<h, l>> : h \in H, l \in L}

(***************************************************************************)
(* Spec: any sequence of setup() and read() calls on NumSensors sensors,   *)
(* one call at a time, with sampled replies.  The sensors are numbered in  *)
(* the order of their channels; two sensors may be given the same channel. *)
(* _shiftValue is not initialised by the constructor.                      *)
(***************************************************************************)
Init ==
    /\ index \in {f \in [Sensors -> Channels] :
                    \A s, o \in Sensors : s <= o => f[s] <= f[o]}
    /\ shiftValue \in [Sensors -> ShiftSamples]
    /\ bus = NoBus
    /\ hist = <<>>
    /\ ctx = Idle
    /\ serial = TRUE

Setup == \E s \in Sensors : \E reply \in Replies1(ShiftSamples) : setup(s, reply, 1)

Read == \E s \in Sensors : \E reply \in Replies2(HighSamples, LowSamples) : read(s, reply, 1)

Next == Setup \/ Read

Spec == Init /\ [][Next]_vars

\* The most recent call.
Called == hist # <<>>
call == hist[Len(hist)]

(***************************************************************************)
(* SpecSetup: calls that receive all the bytes they request, with the      *)
(* sensors on channels 0, 1, ..., shift values in the statically           *)
(* zero-initialised state, shift replies 1 and 2, distance reply 0x27 0x00 *)
(* and the last MaxHist calls remembered.                                  *)
(***************************************************************************)
InitFixed ==
    /\ index = [s \in Sensors |-> (s - 1) % MULTIPLEXER_CHANNEL_COUNT]
    /\ bus = NoBus
    /\ hist = <<>>
    /\ ctx = Idle
    /\ serial = TRUE

InitSetup == InitFixed /\ shiftValue = [s \in Sensors |-> 0]

SetupHist == \E s \in Sensors : \E reply \in {<<1>>, <<2>>} : setup(s, reply, MaxHist)

ReadHist == \E s \in Sensors : read(s, <<39, 0>>, MaxHist)

NextSetup == SetupHist \/ ReadHist

SpecSetup == InitSetup /\ [][NextSetup]_vars

(***************************************************************************)
(* SpecDecode: one read() of sensor 1 for every pair of bytes and every    *)
(* shift value 0..7 that register 0x35 [2:0] can hold.                     *)
(***************************************************************************)
InitShifts ==
    /\ InitFixed
    /\ shiftValue \in {f \in [Sensors -> 0..7] : \A s \in Sensors : s > 1 => f[s] = 0}

DecodeRead ==
    /\ hist = <<>>
    /\ \E h \in Byte : \E l \in Byte : read(1, <<h, l>>, 1)

SpecDecode == InitShifts /\ [][DecodeRead]_vars

(***************************************************************************)
(* SpecPair: two read() calls of sensor 1 to compare: either with the same *)
(* shift value and a second raw value not below the first, or with the     *)
(* same bytes after a setup() that raised the shift value by one.          *)
(***************************************************************************)
Raw(c) == c.high * 16 + c.low

Gaps(a) == (0..MaxGap) \cup {16, 256, 4095 - a}

PairFirst ==
    /\ hist = <<>>
    /\ \E h \in Byte : \E l \in 0..15 : read(1, <<h, l>>, 3)

PairNext ==
    /\ Len(hist) = 1
    /\ \E g \in Gaps(Raw(hist[1])) :
          LET b == Raw(hist[1]) + g
          IN  /\ b <= 4095
              /\ read(1, <<b \div 16, b % 16>>, 3)

PairRescale ==
    /\ Len(hist) = 1
    /\ shiftValue[1] < 7
    /\ setup(1, <<shiftValue[1] + 1>>, 3)

PairAgain ==
    /\ Len(hist) = 2
    /\ hist[2].op = "setup"
    /\ read(1, hist[1].reply, 3)

NextPair == PairFirst \/ PairNext \/ PairRescale \/ PairAgain

SpecPair == InitShifts /\ [][NextPair]_vars

(***************************************************************************)
(* SpecThreads: one execution context per sensor, the sensors on channels  *)
(* 0, 1, ...  A call is made of four steps, each a whole bus transaction   *)
(* or the part of the call that follows the request: select (lines 59-62,  *)
(* 94), register address (65-71, 97-103), request (74, 106), finish        *)
(* (77-82, 109-127).  The driver takes no lock: the steps of different     *)
(* contexts interleave freely unless the caller serialises the calls       *)
(* (serial), which is chosen at the start.  ctx[s].seen holds the routing  *)
(* byte of the multiplexer at each sensor transaction of the call of s,    *)
(* until the call returns.  No record of the calls is kept in hist.        *)
(***************************************************************************)
registerWrite(b, reg) ==
    Wire_endTransmission(
        Wire_write(Wire_beginTransmission(b, IR_SLAVE_ADDRESS), reg))

registerOf(op) ==
    IF op = "setup" THEN IR_SHIFT_REG_ADDRESS ELSE IR_DISTANCE_REG_ADDRESS

quantityOf(op) == IF op = "setup" THEN 1 ELSE 2

Fresh == [bus EXCEPT !.log = <<>>]

OthersIdle(s) == \A o \in Sensors \ {s} : ctx[o].pc = "idle"

select(s, op) ==
    /\ ctx[s].pc = "idle"
    /\ serial => OthersIdle(s)
    /\ bus' = setMultiplexer(IF op = "setup" THEN Wire_begin(Fresh) ELSE Fresh,
                             index[s])
    /\ ctx' = [ctx EXCEPT ![s] = [pc |-> "selected", op |-> op, seen |-> <<>>]]
    /\ UNCHANGED <<index, shiftValue, hist, serial>>

address(s) ==
    /\ ctx[s].pc = "selected"
    /\ bus' = registerWrite(Fresh, registerOf(ctx[s].op))
    /\ ctx' = [ctx EXCEPT ![s].pc = "addressed",
                          ![s].seen = Append(@, bus.mux)]
    /\ UNCHANGED <<index, shiftValue, hist, serial>>

request(s, reply) ==
    /\ ctx[s].pc = "addressed"
    /\ Len(reply) <= quantityOf(ctx[s].op)
    /\ bus' = Wire_requestFrom(Fresh, IR_SLAVE_ADDRESS,
                               quantityOf(ctx[s].op), reply)
    /\ ctx' = [ctx EXCEPT ![s].pc = "requested",
                          ![s].seen = Append(@, bus.mux)]
    /\ UNCHANGED <<index, shiftValue, hist, serial>>

finish(s) ==
    /\ ctx[s].pc = "requested"
    /\ IF ctx[s].op = "setup"
       THEN setupFinish(s, Fresh, bus.rx, 0)
       ELSE readFinish(s, Fresh, bus.rx, 0)
    /\ ctx' = [ctx EXCEPT ![s] = Idle[s]]
    /\ UNCHANGED serial

InitThreads ==
    /\ index = [s \in Sensors |-> (s - 1) % MULTIPLEXER_CHANNEL_COUNT]
    /\ shiftValue = [s \in Sensors |-> 0]
    /\ bus = NoBus
    /\ hist = <<>>
    /\ ctx = Idle
    /\ serial \in BOOLEAN

ThreadSelect == \E s \in Sensors : \E op \in {"setup", "read"} : select(s, op)

ThreadAddress == \E s \in Sensors : address(s)

ThreadRequest ==
    \E s \in Sensors : \E reply \in {<<2>>, <<39, 10>>} : request(s, reply)

ThreadFinish == \E s \in Sensors : finish(s)

NextThreads == ThreadSelect \/ ThreadAddress \/ ThreadRequest \/ ThreadFinish

SpecThreads == InitThreads /\ [][NextThreads]_vars

(***************************************************************************)
(* Claims checked under Spec.                                              *)
(***************************************************************************)
OneHot(idx) == 2 ^ idx

SensorEntries == {i \in 1..Len(bus.log) : bus.log[i].addr = 64}
MuxEntries == {i \in 1..Len(bus.log) : bus.log[i].addr = 112}
ReadEntries == {i \in 1..Len(bus.log) : bus.log[i].kind = "read"}

\* C1: read() returns either -1 or a value in 0..638, whatever bytes were
\* received, whatever the stored shift value and however many bytes were
\* available.
C1_ReturnContract ==
    (Called /\ call.op = "read") => (call.ret = -1 \/ call.ret \in 0..638)

\* A read with two bytes available has returned the largest valid distance.
C1_Witness ==
    Called /\ call.op = "read" /\ call.avail = 2 /\ call.ret = 638

\* C2: with fewer than 2 bytes available read() returns exactly -1, takes no
\* byte out of the receive buffer and computes no distance.
C2_FailurePath ==
    (Called /\ call.op = "read" /\ call.avail < 2) =>
        /\ call.ret = -1
        /\ call.distance = NoValue
        /\ bus.rx = call.reply
        /\ ReadEntries = {}

\* A read that found exactly one byte, on a sensor whose shift value is 255.
C2_Witness ==
    Called /\ call.op = "read" /\ call.avail = 1 /\ call.shift = 255

\* C3: every transaction addressed to the sensor during a call happens while
\* the multiplexer's routing byte is 1 << index of the calling sensor, and the
\* call starts by writing that byte to the multiplexer.
C3_ChannelIsolation ==
    Called =>
        /\ Len(bus.log) >= 3
        /\ bus.log[1].kind = "write"
        /\ bus.log[1].addr = 112
        /\ bus.log[1].data = <<OneHot(index[call.sensor])>>
        /\ \A i \in SensorEntries : bus.log[i].mux = OneHot(index[call.sensor])
        /\ Cardinality(SensorEntries) = 2

\* A read that started while the multiplexer still routed to the channel of
\* another sensor, left there by that sensor's call.
C3_Witness ==
    /\ Called /\ call.op = "read"
    /\ \E o \in Sensors :
          /\ o # call.sensor
          /\ index[o] # index[call.sensor]
          /\ bus.log[1].mux = OneHot(index[o])

\* C6: a setup() that finds no byte available leaves the shift value as it
\* was before the call.
C6_SetupFailureKeepsShift ==
    (Called /\ call.op = "setup" /\ call.avail = 0) =>
        shiftValue[call.sensor] = call.shift

\* C8: each channel selection is one write of the single byte 1 << index to
\* the multiplexer address 0x70, so the routing byte is one-hot after every
\* call and exactly one channel is active.
C8_OneHotSelection ==
    Called =>
        /\ bus.mux \in {1, 2, 4, 8}
        /\ bus.mux = OneHot(index[call.sensor])
        /\ Cardinality({c \in Channels : (bus.mux \div (2 ^ c)) % 2 = 1}) = 1
        /\ Cardinality(MuxEntries) = 1
        /\ \A i \in MuxEntries :
              /\ bus.log[i].kind = "write"
              /\ bus.log[i].data = <<OneHot(index[call.sensor])>>

\* A call on the sensor of channel 3 has selected the routing byte 8.
C8_Witness ==
    Called /\ index[call.sensor] = 3 /\ bus.mux = 8

(***************************************************************************)
(* The decode formula of the data sheet, stated without the code's         *)
(* operators.                                                              *)
(***************************************************************************)
Bit(x, i) == (x \div (2 ^ i)) % 2

RefRaw12(high, low) ==
    LET sum[i \in 0..12] ==
            IF i = 12 THEN 0
            ELSE (IF Bit(high * 16, i) = 1 \/ Bit(low, i) = 1 THEN 2 ^ i ELSE 0)
                 + sum[i + 1]
    IN  sum[0]

\* c.distance = (raw12 * 10) >> n, truncated.
ShiftedBy(c, n) ==
    /\ c.distance * (2 ^ n) <= RefRaw12(c.high, c.low) * 10
    /\ RefRaw12(c.high, c.low) * 10 < (c.distance + 1) * (2 ^ n)

Decoded == Called /\ call.op = "read" /\ call.avail = 2

(***************************************************************************)
(* Claims checked under SpecDecode.                                        *)
(***************************************************************************)
\* C4: with 2 bytes available and a shift value in 0..7 the distance computed
\* is (raw12 * 10) >> (4 + shift), truncated, with raw12 = (high << 4) | low;
\* it is returned when below 639; 0x27, 0x0 with shift 2 gives 624 and 97.
C4_DecodeCorrectness ==
    (Decoded /\ call.shift \in 0..7) =>
        /\ ShiftedBy(call, 4 + call.shift)
        /\ (call.distance < 639 => call.ret = call.distance)
        /\ (call.high = 39 /\ call.low = 0 /\ call.shift = 2) =>
              (RefRaw12(call.high, call.low) = 624 /\ call.ret = 97)

\* The example of the specification has been decoded.
C4_Witness ==
    Decoded /\ call.high = 39 /\ call.low = 0 /\ call.shift = 2 /\ call.ret = 97

\* C5: with 2 bytes available read() returns -1 exactly when the distance
\* computed is >= 639 and the distance otherwise; with shift 2, raw12 = 4090
\* is the smallest value decoded to 639 and is invalid, and raw12 in
\* 4084..4089 is returned as 638.
C5_RangeBoundary ==
    Decoded =>
        /\ (call.ret = -1) <=> (call.distance >= 639)
        /\ (call.distance < 639) => (call.ret = call.distance)
        /\ call.shift = 2 =>
              /\ (RefRaw12(call.high, call.low) = 4090) =>
                    (call.distance = 639 /\ call.ret = -1)
              /\ (RefRaw12(call.high, call.low) < 4090) => (call.distance < 639)
              /\ (RefRaw12(call.high, call.low) \in 4084..4089) => (call.ret = 638)

\* The smallest raw value decoded to 639 with shift 2 has been rejected.
C5_Witness ==
    /\ Decoded /\ call.shift = 2
    /\ RefRaw12(call.high, call.low) = 4090
    /\ call.distance = 639 /\ call.ret = -1

(***************************************************************************)
(* Claims checked under SpecSetup.                                         *)
(***************************************************************************)
IsSetupOf(c, s) == c.op = "setup" /\ c.sensor = s

NoSetupBetween(s, j, k) == \A m \in (j + 1)..(k - 1) : ~IsSetupOf(hist[m], s)

\* C7: after a setup() whose register reply is s2, whatever an earlier setup()
\* stored, the shift value is s2 and every later read() of that sensor decodes
\* with the shift 4 + s2, until the next setup() of that sensor.
C7_SetupIdempotence ==
    \A j \in 1..Len(hist) :
        (hist[j].op = "setup" /\ hist[j].avail = 1) =>
            LET s == hist[j].sensor
                s2 == hist[j].reply[1]
            IN  /\ NoSetupBetween(s, j, Len(hist) + 1) => shiftValue[s] = s2
                /\ \A k \in (j + 1)..Len(hist) :
                      (/\ hist[k].op = "read" /\ hist[k].sensor = s
                       /\ hist[k].avail = 2
                       /\ NoSetupBetween(s, j, k)) =>
                          ShiftedBy(hist[k], 4 + s2)

\* Two setup() calls with different replies s1, s2, then a read() decoded with
\* s2 and not with s1.
C7_Witness ==
    /\ Len(hist) = 3
    /\ IsSetupOf(hist[1], 1) /\ hist[1].avail = 1
    /\ IsSetupOf(hist[2], 1) /\ hist[2].avail = 1
    /\ hist[1].reply # hist[2].reply
    /\ hist[3].op = "read" /\ hist[3].sensor = 1 /\ hist[3].avail = 2
    /\ ShiftedBy(hist[3], 4 + hist[2].reply[1])
    /\ ~ShiftedBy(hist[3], 4 + hist[1].reply[1])

(***************************************************************************)
(* Claims checked under SpecPair.                                          *)
(***************************************************************************)
TwoReads ==
    /\ Len(hist) = 2
    /\ hist[1].op = "read" /\ hist[1].avail = 2
    /\ hist[2].op = "read" /\ hist[2].avail = 2

Rescaled ==
    /\ Len(hist) = 3
    /\ hist[1].op = "read" /\ hist[1].avail = 2
    /\ hist[2].op = "setup"
    /\ hist[3].op = "read" /\ hist[3].avail = 2

\* C9: for a fixed shift value in 0..7 the distance computed, before range
\* validation, is non-decreasing in raw12.
C9_Monotonic ==
    (/\ TwoReads
     /\ hist[1].shift = hist[2].shift
     /\ Raw(hist[1]) <= Raw(hist[2])) =>
        hist[1].distance <= hist[2].distance

\* Two reads with the same shift, the second raw value larger and decoded to
\* a larger distance.
C9_Witness ==
    /\ TwoReads
    /\ hist[1].shift = hist[2].shift
    /\ Raw(hist[1]) < Raw(hist[2])
    /\ hist[1].distance < hist[2].distance

\* C10: for the same raw12 and s in 0..6, the distance computed with shift
\* s + 1 is the distance computed with shift s, halved and truncated.
C10_ShiftSensitivity ==
    (/\ Rescaled
     /\ hist[3].shift = hist[1].shift + 1
     /\ hist[3].high = hist[1].high
     /\ hist[3].low = hist[1].low) =>
        hist[3].distance = hist[1].distance \div 2

\* The same bytes decoded to an odd distance, then with the shift raised by
\* one to its truncated half.
C10_Witness ==
    /\ Rescaled
    /\ hist[3].shift = hist[1].shift + 1
    /\ hist[3].reply = hist[1].reply
    /\ hist[1].distance % 2 = 1
    /\ hist[3].distance = (hist[1].distance - 1) \div 2

(***************************************************************************)
(* Claims about the raw value and the width of the arithmetic, checked     *)
(* under SpecDecode.                                                       *)
(***************************************************************************)
\* c.distance = ((high * 16 + low mod 16) * 10) >> n, truncated.
NibbleShiftedBy(c, n) ==
    /\ c.distance * (2 ^ n) <= (c.high * 16 + (c.low % 16)) * 10
    /\ (c.high * 16 + (c.low % 16)) * 10 < (c.distance + 1) * (2 ^ n)

\* C11: the raw value is high * 16 + (low mod 16): bits 7..4 of the low byte
\* do not change the distance computed.
C11_LowNibbleOnly ==
    (Decoded /\ call.shift \in 0..7) => NibbleShiftedBy(call, 4 + call.shift)

\* C16: for shift values 0..7 the product raw12 * 10 is at most 40950 and the
\* shifted distance at most 2559, so the 16-bit distance is the value
\* computed, and the value returned is that distance or -1.
C16_NoWrap ==
    (Decoded /\ call.shift \in 0..7) =>
        /\ RefRaw12(call.high, call.low) * 10 <= 40950
        /\ call.distance \in 0..2559
        /\ ShiftedBy(call, 4 + call.shift)
        /\ call.ret = (IF call.distance < 639 THEN call.distance ELSE -1)
        /\ call.ret \in (0 - 1)..638

\* The largest raw value with shift 0: the largest product and distance.
C16_Witness ==
    /\ Decoded /\ call.shift = 0
    /\ RefRaw12(call.high, call.low) = 4095
    /\ call.distance = 2559 /\ call.ret = -1

(***************************************************************************)
(* Claims about the bus operations of a call, checked under Spec.          *)
(***************************************************************************)
IsEntry(e, kind, addr, data) == e.kind = kind /\ e.addr = addr /\ e.data = data

\* Select, register address, request: the first three bus operations.
Prologue(reg, quantity) ==
    /\ Len(bus.log) >= 3
    /\ IsEntry(bus.log[1], "write", 112, <<OneHot(index[call.sensor])>>)
    /\ IsEntry(bus.log[2], "write", 64, <<reg>>)
    /\ IsEntry(bus.log[3], "request", 64, <<quantity>>)

\* C12: read() issues one channel-select write, one write of 0x5E to 0x40 and
\* one request for 2 bytes from 0x40, in this order; with 2 bytes available it
\* then takes exactly two bytes, high first; with fewer it does nothing more.
C12_ReadSequence ==
    (Called /\ call.op = "read") =>
        /\ Prologue(94, 2)
        /\ call.avail = 2 =>
              /\ Len(bus.log) = 5
              /\ IsEntry(bus.log[4], "read", NoValue, <<call.reply[1]>>)
              /\ IsEntry(bus.log[5], "read", NoValue, <<call.reply[2]>>)
              /\ call.high = call.reply[1]
              /\ call.low = call.reply[2]
              /\ bus.rx = <<>>
        /\ call.avail < 2 => Len(bus.log) = 3

\* A read of two different bytes, the first taken as high.
C12_Witness ==
    /\ Called /\ call.op = "read" /\ call.avail = 2
    /\ call.reply = <<39, 249>> /\ call.high = 39 /\ call.low = 249

C15_Frame ==
    [][/\ index' = index
       /\ \A s \in Sensors :
             shiftValue'[s] # shiftValue[s] =>
                 /\ hist' # <<>>
                 /\ IsSetupOf(hist'[Len(hist')], s)]_vars

\* An out-of-range read of a sensor whose shift value, different from the
\* other sensor's, is as before the call.
C15_Witness ==
    /\ Called /\ call.op = "read" /\ call.avail = 2 /\ call.ret = -1
    /\ shiftValue[call.sensor] = call.shift
    /\ \E o \in Sensors : shiftValue[o] # shiftValue[call.sensor]

(***************************************************************************)
(* Claims checked under SpecThreads.                                       *)
(***************************************************************************)
\* A sensor transaction of the call of s met the routing byte of channel c.
SeenOn(s, c) == \E i \in 1..Len(ctx[s].seen) : ctx[s].seen[i] = 2 ^ c

Misrouted(s) == \E i \in 1..Len(ctx[s].seen) : ctx[s].seen[i] # 2 ^ index[s]

\* C14: the driver takes no lock.  When every call runs to completion before
\* the next one starts, no register write or byte request of a sensor reaches
\* the bus while the multiplexer routes to another channel; when the calls of
\* two sensors interleave, such a state is reachable (the witness).
C14_SerialIsolation == serial => \A s \in Sensors : ~Misrouted(s)

\* Without serialisation: a sensor transaction of A met the routing byte of
\* B's channel, B's call being in progress.
C14_Witness ==
    /\ ~serial
    /\ \E a, b \in Sensors :
          /\ index[a] # index[b]
          /\ ctx[b].pc # "idle"
          /\ SeenOn(a, index[b])

====
